---- MODULE Spec2Model ----
(***************************************************************************)
(* Event booking platform: intake of booking and contact inquiries.       *)
(* The model follows backend/app/services/booking_service.py,             *)
(* backend/app/services/contact_service.py and the two POST routes in     *)
(* backend/app/api/routes.  A request handler is split at the points      *)
(* where another worker that shares the database can run: after the       *)
(* validation queries, after the commit, and after the notifications.     *)
(***************************************************************************)
EXTENDS Integers, Sequences, FiniteSets, TLC

VARIABLES now, ticks, bookings, contacts, pc, draft, resp, cur, submitted,
          outbox, probe

vars == <<now, ticks, bookings, contacts, pc, draft, resp, cur, submitted,
          outbox, probe>>

(***************************************************************************)
(* Bounds of the model.                                                    *)
(***************************************************************************)
MaxRequests == 3
MaxTicks == 1
NumProcs == 2
MaxMsgTokens == 3
MaxAdminOps == 2

(***************************************************************************)
(* Program constants.                                                      *)
(***************************************************************************)
HoursPerDay == 24
MaxFutureDays == 730
LargeGuestCount == 200
HighBudget == 10000
ShortNoticeDays == 60
SpamThreshold == 4
RecentContactHours == 1
Absent == -1
Unset == -2

Procs == 1..NumProcs

BookingStatus == {"pending", "reviewed", "contacted", "quoted", "confirmed",
                  "cancelled", "completed"}

EventType == {"wedding", "corporate", "birthday"}

(***************************************************************************)
(* Strings.  str.lower() over the strings the model submits.               *)
(***************************************************************************)
Lower(s) ==
    CASE s = "A@X.COM" -> "a@x.com"
      [] s = "Bob@Mailinator.COM" -> "bob@mailinator.com"
      [] s = "HELLO" -> "hello"
      [] s = "LOTTERY" -> "lottery"
      [] s = "URGENT" -> "urgent"
      [] s = "Mailinator.COM" -> "mailinator.com"
      [] OTHER -> s

(***************************************************************************)
(* Clock: now is in hours, date.today() is the day it falls in.            *)
(***************************************************************************)
Today == now \div HoursPerDay

(***************************************************************************)
(* Booking classifier: BookingService._determine_priority.                 *)
(***************************************************************************)
PriorityConditions(d, today) ==
    << d.guest_count > LargeGuestCount,
       d.budget_min # Absent /\ d.budget_min # 0 /\ d.budget_min > HighBudget,
       d.event_date - today <= ShortNoticeDays,
       d.event_type = "corporate",
       d.previous_client >>

AnyOf(conds) == \E i \in DOMAIN conds : conds[i]

ExactlyOneOf(conds) == Cardinality({i \in DOMAIN conds : conds[i]}) = 1

\* Variants of the policy: priority from two conditions on, and priority
\* for one condition only.
_determine_priority_two(d, today) ==
    Cardinality({i \in 1..5 : PriorityConditions(d, today)[i]}) >= 2

_determine_priority_one(d, today) == ExactlyOneOf(PriorityConditions(d, today))

_determine_priority(d, today) == AnyOf(PriorityConditions(d, today))

\* The duplicate query without .lower() on the submitted email.
ExistingBookings_raw_email(d) ==
    {i \in DOMAIN bookings :
        /\ bookings[i].contact_email = d.contact_email
        /\ bookings[i].event_date = d.event_date
        /\ bookings[i].status # "cancelled"}

\* The duplicate query that skips archived rows.
ExistingBookings_unarchived(d) ==
    {i \in DOMAIN bookings :
        /\ bookings[i].contact_email = Lower(d.contact_email)
        /\ bookings[i].event_date = d.event_date
        /\ bookings[i].status # "cancelled"
        /\ ~bookings[i].is_archived}

(***************************************************************************)
(* Duplicate query of BookingService._validate_booking_creation: the       *)
(* stored bookings with the same lower-cased email and event date whose    *)
(* status is not CANCELLED.                                                *)
(***************************************************************************)
ExistingBookings(d) ==
    {i \in DOMAIN bookings :
        /\ bookings[i].contact_email = Lower(d.contact_email)
        /\ bookings[i].event_date = d.event_date
        /\ bookings[i].status # "cancelled"}

DateTooFar(d) == d.event_date > Today + MaxFutureDays

NoResp == [code |-> 0, error_code |-> "NONE", id |-> 0]

NoDraft == [kind |-> "none"]

NoProbe == [fn |-> "none"]

(***************************************************************************)
(* Exceptions and their way to the HTTP boundary.                          *)
(***************************************************************************)
NoExc == [type |-> "none", error_code |-> "NONE", existing_id |-> 0]

\* ValidationError(message): error_code defaults to VALIDATION_ERROR.
ValidationError(code, existing) ==
    [type |-> "ValidationError",
     error_code |-> IF code = "NONE" THEN "VALIDATION_ERROR" ELSE code,
     existing_id |-> existing]

\* BookingService._validate_booking_creation, the method of the class.
_validate_booking_creation(d) ==
    IF ExistingBookings(d) # {}
    THEN ValidationError("NONE", 0)
    ELSE IF DateTooFar(d)
         THEN ValidationError("NONE", 0)
         ELSE NoExc

\* create_booking: except Exception -> rollback, raise BookingServiceError.
BookingServiceError(e) ==
    [type |-> "BookingServiceError", error_code |-> "BOOKING_SERVICE_ERROR",
     existing_id |-> 0]

\* routes/bookings.py create_booking: the except clauses in their order.
BookingRouteError(e) ==
    IF e.type = "ValidationError"
    THEN IF e.error_code = "DUPLICATE_BOOKING"
         THEN [code |-> 409, error_code |-> e.error_code, id |-> e.existing_id]
         ELSE [code |-> 422, error_code |-> e.error_code, id |-> 0]
    ELSE IF e.type = "BookingServiceError"
         THEN [code |-> 500, error_code |-> "SERVICE_ERROR", id |-> 0]
         ELSE [code |-> 500, error_code |-> "SYSTEM_ERROR", id |-> 0]

BookingRouteOk(id) == [code |-> 201, error_code |-> "NONE", id |-> id]

\* A Booking that starts as reviewed when it is a priority.
NewBooking_reviewed(d, today) ==
    [event_type |-> d.event_type,
     event_date |-> d.event_date,
     guest_count |-> d.guest_count,
     budget_min |-> d.budget_min,
     budget_max |-> d.budget_max,
     contact_email |-> Lower(d.contact_email),
     previous_client |-> d.previous_client,
     status |-> IF _determine_priority(d, today) THEN "reviewed" ELSE "pending",
     is_priority |-> _determine_priority(d, today),
     is_archived |-> FALSE,
     contacted_at |-> Absent,
     quoted_at |-> Absent]

(***************************************************************************)
(* The Booking instance create_booking builds from the submitted data.     *)
(***************************************************************************)
NewBooking(d, today) ==
    [event_type |-> d.event_type,
     event_date |-> d.event_date,
     guest_count |-> d.guest_count,
     budget_min |-> d.budget_min,
     budget_max |-> d.budget_max,
     contact_email |-> Lower(d.contact_email),
     previous_client |-> d.previous_client,
     status |-> "pending",
     is_priority |-> _determine_priority(d, today),
     is_archived |-> FALSE,
     contacted_at |-> Absent,
     quoted_at |-> Absent]

(***************************************************************************)
(* Inputs of the intake specifications.                                    *)
(***************************************************************************)
RawEmails == {"a@x.com", "A@X.COM", "b@y.org"}

DateOffsets == {1, 731}

BookingProfiles ==
    {[event_type |-> "wedding", guest_count |-> 20, budget_min |-> Absent,
      budget_max |-> Absent, previous_client |-> FALSE],
     [event_type |-> "corporate", guest_count |-> 250, budget_min |-> 20000,
      budget_max |-> 30000, previous_client |-> TRUE]}

BookingDraft(e, off, pr) ==
    [kind |-> "booking", contact_email |-> e, event_date |-> Today + off,
     event_type |-> pr.event_type, guest_count |-> pr.guest_count,
     budget_min |-> pr.budget_min, budget_max |-> pr.budget_max,
     previous_client |-> pr.previous_client]

CanBegin(p) == pc[p] \in {"idle", "done"} /\ submitted < MaxRequests

\* create_booking that adds and commits the row before it validates.
SubmitBooking_persist_first(p, d) ==
    /\ CanBegin(p)
    /\ submitted' = submitted + 1
    /\ cur' = [cur EXCEPT ![p] = submitted + 1]
    /\ LET e == _validate_booking_creation(d) IN
         IF e.type # "none"
         THEN /\ pc' = [pc EXCEPT ![p] = "done"]
              /\ draft' = [draft EXCEPT ![p] = d]
              /\ resp' = [resp EXCEPT ![p] =
                               BookingRouteError(BookingServiceError(e))]
              /\ bookings' = Append(bookings,
                                    [id |-> Len(bookings) + 1, created_at |-> now]
                                        @@ NewBooking(d, Today))
         ELSE /\ pc' = [pc EXCEPT ![p] = "b_commit"]
              /\ draft' = [draft EXCEPT ![p] =
                               [kind |-> "booking_row", row |-> NewBooking(d, Today)]]
              /\ resp' = [resp EXCEPT ![p] = NoResp]
              /\ bookings' = bookings
    /\ UNCHANGED <<now, ticks, contacts, outbox, probe>>

(***************************************************************************)
(* create_booking, first part: validation and construction of the Booking. *)
(* A rejection is rolled back, wrapped and answered at once.               *)
(***************************************************************************)
SubmitBooking(p, d) ==
    /\ CanBegin(p)
    /\ submitted' = submitted + 1
    /\ cur' = [cur EXCEPT ![p] = submitted + 1]
    /\ LET e == _validate_booking_creation(d) IN
         IF e.type # "none"
         THEN /\ pc' = [pc EXCEPT ![p] = "done"]
              /\ draft' = [draft EXCEPT ![p] = d]
              /\ resp' = [resp EXCEPT ![p] =
                               BookingRouteError(BookingServiceError(e))]
         ELSE /\ pc' = [pc EXCEPT ![p] = "b_commit"]
              /\ draft' = [draft EXCEPT ![p] =
                               [kind |-> "booking_row", row |-> NewBooking(d, Today)]]
              /\ resp' = [resp EXCEPT ![p] = NoResp]
    /\ UNCHANGED <<now, ticks, bookings, contacts, outbox, probe>>

(***************************************************************************)
(* create_booking, db.add / db.commit / db.refresh: the row gets its id    *)
(* and created_at from the database.                                       *)
(***************************************************************************)
CommitBooking(p) ==
    /\ pc[p] = "b_commit"
    /\ bookings' = Append(bookings,
                          [id |-> Len(bookings) + 1, created_at |-> now]
                              @@ draft[p].row)
    /\ draft' = [draft EXCEPT ![p] = [kind |-> "booking_done", id |-> Len(bookings) + 1]]
    /\ pc' = [pc EXCEPT ![p] = "b_notify"]
    /\ UNCHANGED <<now, ticks, contacts, resp, cur, submitted, outbox, probe>>

\* A failed commit that still asks for the notifications.
CommitBookingFails_notifies(p) ==
    /\ pc[p] = "b_commit"
    /\ pc' = [pc EXCEPT ![p] = "done"]
    /\ resp' = [resp EXCEPT ![p] =
                     BookingRouteError(BookingServiceError(
                         [type |-> "SQLAlchemyError", error_code |-> "NONE",
                          existing_id |-> 0]))]
    /\ outbox' = outbox \cup
           {[kind |-> "booking", rid |-> cur[p], id |-> Len(bookings) + 1,
             to |-> "client"],
            [kind |-> "booking", rid |-> cur[p], id |-> Len(bookings) + 1,
             to |-> "admin"]}
    /\ UNCHANGED <<now, ticks, bookings, contacts, draft, cur, submitted, probe>>

\* db.commit() raises: rollback, BookingServiceError, 500 at the route.
CommitBookingFails(p) ==
    /\ pc[p] = "b_commit"
    /\ pc' = [pc EXCEPT ![p] = "done"]
    /\ resp' = [resp EXCEPT ![p] =
                     BookingRouteError(BookingServiceError(
                         [type |-> "SQLAlchemyError", error_code |-> "NONE",
                          existing_id |-> 0]))]
    /\ UNCHANGED <<now, ticks, bookings, contacts, draft, cur, submitted,
                   outbox, probe>>

(***************************************************************************)
(* _send_booking_notifications and the answer of the route.  The email     *)
(* service reports a failed send by returning False; whatever it reports   *)
(* is dropped.  outbox holds the requests made to the email service, the   *)
(* handler's record what became of its own two.                            *)
(***************************************************************************)
Notifications(kind, rid, id) ==
    {[kind |-> kind, rid |-> rid, id |-> id, to |-> "client"],
     [kind |-> kind, rid |-> rid, id |-> id, to |-> "admin"]}

\* A failed email that is raised to the caller.
BookingNotifyResult_raise(id, c_ok, a_ok) ==
    IF c_ok /\ a_ok
    THEN [code |-> 201, error_code |-> "NONE", id |-> id]
    ELSE [code |-> 500, error_code |-> "SERVICE_ERROR", id |-> 0]

BookingNotifyResult(id, c_ok, a_ok) == BookingRouteOk(id)

NotifyBooking(p) ==
    /\ pc[p] = "b_notify"
    /\ \E c_ok \in BOOLEAN, a_ok \in BOOLEAN :
          /\ outbox' = outbox \cup Notifications("booking", cur[p], draft[p].id)
          /\ draft' = [draft EXCEPT ![p] =
                           [kind |-> "booking_done", id |-> draft[p].id,
                            confirmation_sent |-> c_ok, admin_sent |-> a_ok]]
          /\ resp' = [resp EXCEPT ![p] = BookingNotifyResult(draft[p].id, c_ok, a_ok)]
    /\ pc' = [pc EXCEPT ![p] = "done"]
    /\ UNCHANGED <<now, ticks, bookings, contacts, cur, submitted, probe>>

(***************************************************************************)
(* Text.  A subject or message is a sequence of words separated by single  *)
(* blanks; a keyword is "in" a text when it is one of its lower-cased      *)
(* words.  The tables give what the code measures of each word.            *)
(***************************************************************************)
Words == {"hello", "HELLO", "lottery", "LOTTERY", "casino", "loan",
          "http://a.io", "!!!", "???", "URGENT", "asap"}

WordLen(w) ==
    CASE w \in {"hello", "HELLO"} -> 5
      [] w \in {"lottery", "LOTTERY"} -> 7
      [] w \in {"casino", "URGENT"} -> 6
      [] w \in {"loan", "asap"} -> 4
      [] w = "http://a.io" -> 11
      [] OTHER -> 3

\* sum(1 for c in w if c.isupper())
WordUpper(w) ==
    CASE w = "HELLO" -> 5
      [] w = "LOTTERY" -> 7
      [] w = "URGENT" -> 6
      [] OTHER -> 0

\* matches of url_pattern in the word
WordUrls(w) == IF w = "http://a.io" THEN 1 ELSE 0

\* the characters c with c * 3 in the word
WordTriples(w) ==
    CASE w = "!!!" -> {"!"}
      [] w = "???" -> {"?"}
      [] OTHER -> {}

RECURSIVE SumOver(_, _)
SumOver(f, S) ==
    IF S = {} THEN 0
    ELSE LET x == CHOOSE y \in S : TRUE IN f[x] + SumOver(f, S \ {x})

TextLen(t) ==
    IF Len(t) = 0 THEN 0
    ELSE SumOver([i \in DOMAIN t |-> WordLen(t[i])], DOMAIN t) + (Len(t) - 1)

TextUpper(t) == SumOver([i \in DOMAIN t |-> WordUpper(t[i])], DOMAIN t)

TextUrls(t) == SumOver([i \in DOMAIN t |-> WordUrls(t[i])], DOMAIN t)

TextTriples(t) == UNION {WordTriples(t[i]) : i \in DOMAIN t}

KeywordIn(k, t) == \E i \in DOMAIN t : Lower(t[i]) = k

\* email.split("@")[1]
EmailDomain(e) ==
    CASE e = "a@x.com" -> "x.com"
      [] e = "A@X.COM" -> "X.COM"
      [] e = "b@y.org" -> "y.org"
      [] e = "Bob@Mailinator.COM" -> "Mailinator.COM"
      [] OTHER -> "none"

\* sub in s
Substring(sub, s) ==
    \/ sub = s
    \/ <<sub, s>> \in {<<"mailinator", "mailinator.com">>}

(***************************************************************************)
(* Contact classifier: ContactService._detect_spam.                        *)
(***************************************************************************)
spam_keywords ==
    {"lottery", "winner", "million", "inheritance", "viagra", "casino",
     "loan", "credit", "debt", "free money", "make money fast",
     "click here", "limited time", "act now", "guaranteed"}

suspicious_domains == {"tempmail", "10minutemail", "guerrillamail", "mailinator"}

SuspiciousChars == {"!", "@", "#", "$", "%"}

KeywordScore(d) ==
    2 * Cardinality({k \in spam_keywords :
                        KeywordIn(k, d.message) \/ KeywordIn(k, d.subject)})

UrlScore(d) ==
    IF TextUrls(d.message) > 2 THEN 3
    ELSE IF TextUrls(d.message) > 0 THEN 1 ELSE 0

CapsScore(d) ==
    IF TextLen(d.message) > 0 /\ 2 * TextUpper(d.message) > TextLen(d.message)
    THEN 2 ELSE 0

PatternScore(d) ==
    IF TextTriples(d.message) \cap SuspiciousChars # {} THEN 1 ELSE 0

DomainScore(d) ==
    IF \E s \in suspicious_domains : Substring(s, Lower(EmailDomain(d.email)))
    THEN 3 ELSE 0

spam_indicators(d) ==
    KeywordScore(d) + UrlScore(d) + CapsScore(d) + PatternScore(d) + DomainScore(d)

\* The verdict with a strict comparison.
_detect_spam_above(d) == spam_indicators(d) > SpamThreshold

_detect_spam(d) == spam_indicators(d) >= SpamThreshold

\* The priority with the low conditions looked at first.
Contact_determine_priority_low_first(d) ==
    IF d.contact_type = "feedback" \/ d.is_newsletter_signup
    THEN "low"
    ELSE IF \/ d.contact_type = "complaint"
            \/ KeywordIn("urgent", d.subject)
            \/ KeywordIn("asap", d.message)
            \/ KeywordIn("immediately", d.message)
            \/ (d.contact_type = "partnership" /\ d.company # "")
         THEN "urgent"
         ELSE "normal"

(***************************************************************************)
(* ContactService._determine_priority.                                     *)
(***************************************************************************)
Contact_determine_priority(d) ==
    IF \/ d.contact_type = "complaint"
       \/ KeywordIn("urgent", d.subject)
       \/ KeywordIn("asap", d.message)
       \/ KeywordIn("immediately", d.message)
       \/ (d.contact_type = "partnership" /\ d.company # "")
    THEN "urgent"
    ELSE IF d.contact_type = "feedback" \/ d.is_newsletter_signup
         THEN "low"
         ELSE "normal"

\* The recent-contact query without .lower() on the submitted email.
RecentContacts_raw_email(d) ==
    {c \in contacts :
        /\ c.email = d.email
        /\ c.created_at >= now - RecentContactHours}

(***************************************************************************)
(* ContactService._validate_contact_creation: a contact of the same        *)
(* lower-cased email created within the last hour.                         *)
(***************************************************************************)
RecentContacts(d) ==
    {c \in contacts :
        /\ c.email = Lower(d.email)
        /\ c.created_at >= now - RecentContactHours}

_validate_contact_creation(d) ==
    IF RecentContacts(d) # {} THEN ValidationError("NONE", 0) ELSE NoExc

\* routes/contact.py create_contact: ContactServiceError -> 500.
ContactRouteError(e) ==
    IF e.type = "ValidationError"
    THEN [code |-> 422, error_code |-> e.error_code, id |-> 0]
    ELSE [code |-> 500, error_code |-> "NONE", id |-> 0]

ContactServiceError(e) ==
    [type |-> "ContactServiceError", error_code |-> "CONTACT_SERVICE_ERROR",
     existing_id |-> 0]

NewContact(d) ==
    [email |-> Lower(d.email),
     contact_type |-> d.contact_type,
     status |-> "new",
     priority |-> Contact_determine_priority(d),
     is_spam |-> _detect_spam(d),
     requires_follow_up |-> ~_detect_spam(d),
     read_at |-> Absent,
     replied_at |-> Absent]

NextContactId ==
    IF contacts = {} THEN 1
    ELSE 1 + (CHOOSE m \in {c.id : c \in contacts} :
                 \A c \in contacts : c.id <= m)

ContactDrafts ==
    {[kind |-> "contact", email |-> e, subject |-> <<"hello">>, message |-> m,
      contact_type |-> "general", company |-> "", is_newsletter_signup |-> FALSE] :
        e \in {"a@x.com", "A@X.COM"},
        m \in {<<"hello", "hello">>, <<"lottery", "http://a.io", "!!!">>}}

(***************************************************************************)
(* create_contact, first part: validation, spam verdict, priority.         *)
(***************************************************************************)
SubmitContact(p, d) ==
    /\ CanBegin(p)
    /\ submitted' = submitted + 1
    /\ cur' = [cur EXCEPT ![p] = submitted + 1]
    /\ LET e == _validate_contact_creation(d) IN
         IF e.type # "none"
         THEN /\ pc' = [pc EXCEPT ![p] = "done"]
              /\ draft' = [draft EXCEPT ![p] = d]
              /\ resp' = [resp EXCEPT ![p] =
                               ContactRouteError(ContactServiceError(e))]
         ELSE /\ pc' = [pc EXCEPT ![p] = "c_commit"]
              /\ draft' = [draft EXCEPT ![p] =
                               [kind |-> "contact_row", row |-> NewContact(d)]]
              /\ resp' = [resp EXCEPT ![p] = NoResp]
    /\ UNCHANGED <<now, ticks, bookings, contacts, outbox, probe>>

CommitContact(p) ==
    /\ pc[p] = "c_commit"
    /\ contacts' = contacts \cup
           {[id |-> NextContactId, created_at |-> now] @@ draft[p].row}
    /\ draft' = [draft EXCEPT ![p] =
                     [kind |-> "contact_done", id |-> NextContactId,
                      is_spam |-> draft[p].row.is_spam]]
    /\ pc' = [pc EXCEPT ![p] = "c_notify"]
    /\ UNCHANGED <<now, ticks, bookings, resp, cur, submitted, outbox, probe>>

CommitContactFails(p) ==
    /\ pc[p] = "c_commit"
    /\ pc' = [pc EXCEPT ![p] = "done"]
    /\ resp' = [resp EXCEPT ![p] =
                     ContactRouteError(ContactServiceError(
                         [type |-> "SQLAlchemyError", error_code |-> "NONE",
                          existing_id |-> 0]))]
    /\ UNCHANGED <<now, ticks, bookings, contacts, draft, cur, submitted,
                   outbox, probe>>

(***************************************************************************)
(* create_contact, notifications (not for spam) and the route's answer.    *)
(***************************************************************************)
ContactRouteOk(id) == [code |-> 201, error_code |-> "NONE", id |-> id]

ContactNotifyResult(id, c_ok, a_ok) == ContactRouteOk(id)

\* create_contact that notifies whatever the spam verdict.
NotifyContact_always(p) ==
    /\ pc[p] = "c_notify"
    /\ \E c_ok \in BOOLEAN, a_ok \in BOOLEAN :
          /\ outbox' = outbox \cup Notifications("contact", cur[p], draft[p].id)
          /\ draft' = [draft EXCEPT ![p] =
                           [kind |-> "contact_done", id |-> draft[p].id,
                            is_spam |-> draft[p].is_spam,
                            confirmation_sent |-> c_ok, admin_sent |-> a_ok]]
          /\ resp' = [resp EXCEPT ![p] = ContactNotifyResult(draft[p].id, c_ok, a_ok)]
    /\ pc' = [pc EXCEPT ![p] = "done"]
    /\ UNCHANGED <<now, ticks, bookings, contacts, cur, submitted, probe>>

NotifyContact(p) ==
    /\ pc[p] = "c_notify"
    /\ IF draft[p].is_spam
       THEN /\ outbox' = outbox
            /\ draft' = draft
            /\ resp' = [resp EXCEPT ![p] = ContactRouteOk(draft[p].id)]
       ELSE \E c_ok \in BOOLEAN, a_ok \in BOOLEAN :
              /\ outbox' = outbox \cup Notifications("contact", cur[p], draft[p].id)
              /\ draft' = [draft EXCEPT ![p] =
                               [kind |-> "contact_done", id |-> draft[p].id,
                                is_spam |-> FALSE,
                                confirmation_sent |-> c_ok, admin_sent |-> a_ok]]
              /\ resp' = [resp EXCEPT ![p] =
                               ContactNotifyResult(draft[p].id, c_ok, a_ok)]
    /\ pc' = [pc EXCEPT ![p] = "done"]
    /\ UNCHANGED <<now, ticks, bookings, contacts, cur, submitted, probe>>

(***************************************************************************)
(* The clock.                                                              *)
(***************************************************************************)
Tick(d) ==
    /\ ticks < MaxTicks
    /\ now' = now + d
    /\ ticks' = ticks + 1
    /\ UNCHANGED <<bookings, contacts, pc, draft, resp, cur, submitted,
                   outbox, probe>>

TickSteps == {1, HoursPerDay}

Init ==
    /\ now = 0
    /\ ticks = 0
    /\ bookings = <<>>
    /\ contacts = {}
    /\ pc = [p \in Procs |-> "idle"]
    /\ draft = [p \in Procs |-> NoDraft]
    /\ resp = [p \in Procs |-> NoResp]
    /\ cur = [p \in Procs |-> 0]
    /\ submitted = 0
    /\ outbox = {}
    /\ probe = NoProbe

(***************************************************************************)
(* Sequential intake: one handler at a time, each run to completion.       *)
(***************************************************************************)
SeqProcs == {1}

Next ==
    \/ \E p \in SeqProcs, e \in RawEmails, off \in DateOffsets, pr \in BookingProfiles :
          SubmitBooking(p, BookingDraft(e, off, pr))
    \/ \E p \in SeqProcs : CommitBooking(p)
    \/ \E p \in SeqProcs : CommitBookingFails(p)
    \/ \E p \in SeqProcs : NotifyBooking(p)
    \/ \E p \in SeqProcs, d \in ContactDrafts : SubmitContact(p, d)
    \/ \E p \in SeqProcs : CommitContact(p)
    \/ \E p \in SeqProcs : CommitContactFails(p)
    \/ \E p \in SeqProcs : NotifyContact(p)
    \/ \E d \in TickSteps : Tick(d)

Spec == Init /\ [][Next]_vars

(***************************************************************************)
(* Concurrent intake: several workers on one database, their validation    *)
(* queries and commits interleaved.                                        *)
(***************************************************************************)
NextConc ==
    \/ \E p \in Procs, e \in RawEmails, off \in DateOffsets, pr \in BookingProfiles :
          SubmitBooking(p, BookingDraft(e, off, pr))
    \/ \E p \in Procs : CommitBooking(p)
    \/ \E p \in Procs : CommitBookingFails(p)
    \/ \E p \in Procs : NotifyBooking(p)

SpecConc == Init /\ [][NextConc]_vars

(***************************************************************************)
(* Properties of the intake.                                               *)
(***************************************************************************)
SameSlot(a, b) ==
    a.contact_email = b.contact_email /\ a.event_date = b.event_date

Rejected(p) == pc[p] = "done" /\ draft[p].kind = "booking"

HasBooking(id) == id \in DOMAIN bookings

HasContact(id) == \E c \in contacts : c.id = id

\* C1: after any sequence of create_booking submissions, each run to
\* completion before the next starts, no two stored bookings with status
\* other than cancelled share the lower-cased email and the event date.
UniqueNonCancelled ==
    \A i \in DOMAIN bookings, j \in DOMAIN bookings :
        (i # j /\ SameSlot(bookings[i], bookings[j]))
            => (bookings[i].status = "cancelled" \/ bookings[j].status = "cancelled")

\* A second submission for a taken slot, in another letter case, has been
\* turned away while two bookings are stored.
UniqueNonCancelledWitness ==
    /\ Len(bookings) >= 2
    /\ \E p \in Procs :
          /\ Rejected(p)
          /\ draft[p].contact_email # Lower(draft[p].contact_email)
          /\ ExistingBookings(draft[p]) # {}

\* C2: under concurrent submissions with interleaved duplicate queries and
\* commits, every (lower-cased email, event date) has at most one stored
\* booking that is not cancelled.
ConcurrentUnique ==
    \A e \in {Lower(x) : x \in RawEmails}, dt \in {b.event_date : b \in {bookings[i] : i \in DOMAIN bookings}} :
        Cardinality({i \in DOMAIN bookings :
                        /\ bookings[i].contact_email = e
                        /\ bookings[i].event_date = dt
                        /\ bookings[i].status # "cancelled"}) <= 1

\* C3: a second submission for an (email, date) that has a non-cancelled
\* booking is answered with error_code DUPLICATE_BOOKING and the id of the
\* first booking.
DuplicateAnsweredWithConflict ==
    \A p \in Procs :
        (Rejected(p) /\ ExistingBookings(draft[p]) # {})
            => /\ resp[p].error_code = "DUPLICATE_BOOKING"
               /\ resp[p].id \in ExistingBookings(draft[p])

\* C4: a create_booking call that the validation rejects leaves the stored
\* bookings (and contacts) exactly as they were.
RejectionPersistsNothing ==
    [][\A p \in Procs :
          (cur'[p] # cur[p] /\ pc'[p] = "done" /\ draft'[p].kind = "booking")
              => (bookings' = bookings /\ contacts' = contacts)]_vars

\* A submission has been rejected while bookings are stored.
RejectionPersistsNothingWitness ==
    /\ Len(bookings) >= 1
    /\ \E p \in Procs : Rejected(p) /\ resp[p].code >= 400

\* C5: every business-rule rejection of create_booking reaches the HTTP
\* boundary with its own error_code and a 4xx status; 5xx SERVICE_ERROR is
\* for storage and unexpected faults only.
RejectionsAreTyped4xx ==
    \A p \in Procs :
        Rejected(p)
            => /\ resp[p].code \in 400..499
               /\ resp[p].error_code \in
                      {"DUPLICATE_BOOKING", "MINIMUM_TIMEFRAME_ERROR",
                       "DATE_TOO_FAR", "INVALID_BUDGET_RANGE"}

NotifyOnlyAfterCommit ==
    \A m \in outbox :
        /\ IF m.kind = "booking" THEN HasBooking(m.id) ELSE HasContact(m.id)
        /\ \A p \in Procs :
              cur[p] = m.rid
                  => (draft[p].kind \in {"booking_done", "contact_done"}
                      /\ draft[p].id = m.id)

\* Notifications of an earlier request are out and the commit of the
\* latest request has failed.
NotifyOnlyAfterCommitWitness ==
    /\ outbox # {}
    /\ submitted >= 3
    /\ \E p \in Procs : pc[p] = "done" /\ draft[p].kind \in {"booking_row", "contact_row"}

ContactMessages(id) == {m \in outbox : m.kind = "contact" /\ m.id = id}

Notifying(id) == \E p \in Procs : pc[p] = "c_notify" /\ draft[p].id = id

\* C11: a contact classified as spam is stored with is_spam true and
\* requires_follow_up false and no email is requested for it; a contact
\* that is not spam is stored with requires_follow_up true and, once its
\* handler is through, the confirmation and the admin alert are requested.
SpamStoredUnnotified ==
    \A c \in contacts :
        /\ c.is_spam => (~c.requires_follow_up /\ ContactMessages(c.id) = {})
        /\ ~c.is_spam => c.requires_follow_up
        /\ (~c.is_spam /\ ~Notifying(c.id))
              => {m.to : m \in ContactMessages(c.id)} = {"client", "admin"}

\* A spam contact and a contact that is not spam are stored, the handler
\* of the spam contact has answered 201.
SpamStoredUnnotifiedWitness ==
    /\ \E c \in contacts : ~c.is_spam /\ ContactMessages(c.id) # {}
    /\ \E p \in Procs, c \in contacts :
          /\ pc[p] = "done"
          /\ draft[p].kind = "contact_done"
          /\ draft[p].id = c.id
          /\ c.is_spam
          /\ resp[p].code = 201

(***************************************************************************)
(* The reference number f"BK{id:06d}": the decimal digits of the id,       *)
(* filled with zeros on the left up to six places.                         *)
(***************************************************************************)
DigitChar(n) ==
    CASE n = 0 -> "0" [] n = 1 -> "1" [] n = 2 -> "2" [] n = 3 -> "3"
      [] n = 4 -> "4" [] n = 5 -> "5" [] n = 6 -> "6" [] n = 7 -> "7"
      [] n = 8 -> "8" [] OTHER -> "9"

RECURSIVE Decimal(_)
Decimal(n) ==
    IF n < 10 THEN <<DigitChar(n)>>
    ELSE Append(Decimal(n \div 10), DigitChar(n % 10))

RECURSIVE ZeroFill(_, _)
ZeroFill(ds, width) ==
    IF Len(ds) >= width THEN ds ELSE ZeroFill(<<"0">> \o ds, width)

confirmation_number(id) == <<"B", "K">> \o ZeroFill(Decimal(id), 6)

\* The body of a 201: BookingConfirmation.
BookingConfirmation(r) ==
    [booking_id |-> r.id, confirmation_number |-> confirmation_number(r.id)]

\* The body of a 409: the details of the DUPLICATE_BOOKING error.
DuplicateBookingDetails(r) ==
    [existing_booking_id |-> r.id, reference_number |-> confirmation_number(r.id)]

DigitValue(c) == CHOOSE n \in 0..9 : DigitChar(n) = c

RECURSIVE NumberOf(_)
NumberOf(ds) ==
    IF Len(ds) = 0 THEN 0
    ELSE 10 * NumberOf(SubSeq(ds, 1, Len(ds) - 1)) + DigitValue(ds[Len(ds)])

\* C20: the confirmation of a created booking has the id of the booking
\* and the reference BK followed by the id in six digits, zeros first; a
\* later submission that repeats the booking is answered with a conflict
\* descriptor that has the same reference.
ReferenceNumberCarried ==
    \A p \in Procs :
        /\ (pc[p] = "done" /\ draft[p].kind = "booking_done")
              => LET body == BookingConfirmation(resp[p])
                     ref == body.confirmation_number IN
                   /\ resp[p].code = 201
                   /\ body.booking_id = draft[p].id
                   /\ SubSeq(ref, 1, 2) = <<"B", "K">>
                   /\ Len(ref) = 8
                   /\ NumberOf(SubSeq(ref, 3, Len(ref))) = draft[p].id
        /\ (Rejected(p) /\ ExistingBookings(draft[p]) # {})
              => /\ resp[p].code = 409
                 /\ \E i \in ExistingBookings(draft[p]) :
                       DuplicateBookingDetails(resp[p]).reference_number
                           = confirmation_number(i)

(***************************************************************************)
(* The booking rules on their own: the request body is parsed into a      *)
(* BookingCreate (the validators of BookingBase), then handed to           *)
(* create_booking.  A body that does not parse is answered by the          *)
(* framework with 422 and the route function is not entered.               *)
(***************************************************************************)
\* The validator with <= in place of <.
validate_budget_range_le(d) ==
    ~(/\ d.budget_max # Absent
      /\ d.budget_min # Absent
      /\ d.budget_max <= d.budget_min)

validate_budget_range(d) ==
    ~(/\ d.budget_max # Absent
      /\ d.budget_min # Absent
      /\ d.budget_max < d.budget_min)

validate_event_date(d) == ~(d.event_date < Today)

SchemaValidBooking(d) == validate_budget_range(d) /\ validate_event_date(d)

RequestValidationError == [code |-> 422, error_code |-> "NONE", id |-> 0]

RuleOffsets == {0 - 1, 0, 3, 730, 731}

RuleGuests == {50, 60}

RuleBudgets == {<<Absent, Absent>>, <<Absent, 50>>, <<100, 50>>, <<100, 100>>}

RuleDrafts ==
    {[kind |-> "booking", contact_email |-> "a@x.com", event_date |-> Today + off,
      event_type |-> "wedding", guest_count |-> g, budget_min |-> b[1],
      budget_max |-> b[2], previous_client |-> FALSE] :
        off \in RuleOffsets, g \in RuleGuests, b \in RuleBudgets}

\* A route that asks the service first and checks the body afterwards.
RequestBooking_service_first(p, d) ==
    IF _validate_booking_creation(d).type # "none" \/ SchemaValidBooking(d)
    THEN SubmitBooking(p, d)
    ELSE /\ CanBegin(p)
         /\ submitted' = submitted + 1
         /\ cur' = [cur EXCEPT ![p] = submitted + 1]
         /\ pc' = [pc EXCEPT ![p] = "done"]
         /\ draft' = [draft EXCEPT ![p] = [d EXCEPT !.kind = "booking_invalid"]]
         /\ resp' = [resp EXCEPT ![p] = RequestValidationError]
         /\ UNCHANGED <<now, ticks, bookings, contacts, outbox, probe>>

RequestBooking(p, d) ==
    IF SchemaValidBooking(d)
    THEN SubmitBooking(p, d)
    ELSE /\ CanBegin(p)
         /\ submitted' = submitted + 1
         /\ cur' = [cur EXCEPT ![p] = submitted + 1]
         /\ pc' = [pc EXCEPT ![p] = "done"]
         /\ draft' = [draft EXCEPT ![p] = [d EXCEPT !.kind = "booking_invalid"]]
         /\ resp' = [resp EXCEPT ![p] = RequestValidationError]
         /\ UNCHANGED <<now, ticks, bookings, contacts, outbox, probe>>

NextRules ==
    \/ \E p \in SeqProcs, d \in RuleDrafts : RequestBooking(p, d)
    \/ \E p \in SeqProcs : CommitBooking(p)
    \/ \E p \in SeqProcs : CommitBookingFails(p)
    \/ \E p \in SeqProcs : NotifyBooking(p)

SpecRules == Init /\ [][NextRules]_vars

Accepted(p) == draft[p].kind = "booking_row"

\* C12: a submission is accepted only if its event_date lies between the
\* submission date and the submission date plus 730 days inclusive;
\* today+730 passes the horizon rule and today+731 is rejected with
\* error_code DATE_TOO_FAR.
DateHorizon ==
    \A p \in Procs :
        /\ Accepted(p)
              => (/\ draft[p].row.event_date >= Today
                  /\ draft[p].row.event_date <= Today + 730)
        /\ (Rejected(p) /\ draft[p].event_date = Today + 730)
              => ExistingBookings(draft[p]) # {}
        /\ (Rejected(p) /\ draft[p].event_date = Today + 731)
              => resp[p].error_code = "DATE_TOO_FAR"

Answered(p) == pc[p] = "done" /\ draft[p].kind \in {"booking", "booking_invalid"}

BudgetInverted(d) ==
    d.budget_min # Absent /\ d.budget_max # Absent /\ d.budget_max < d.budget_min

SetFields(b, u) ==
    [b EXCEPT !.status = IF u.status = "unset" THEN @ ELSE u.status,
              !.contacted_at = IF u.contacted_at = Unset THEN @ ELSE u.contacted_at,
              !.quoted_at = IF u.quoted_at = Unset THEN @ ELSE u.quoted_at]

\* update_booking that stamps at every move to CONTACTED or QUOTED.
update_booking_restamp(b, u) ==
    LET b1 == SetFields(b, u) IN
      IF u.status = "contacted"
      THEN [b1 EXCEPT !.contacted_at = now]
      ELSE IF u.status = "quoted"
           THEN [b1 EXCEPT !.quoted_at = now]
           ELSE b1

update_booking(b, u) ==
    LET b1 == SetFields(b, u) IN
      IF u.status = "contacted" /\ b1.contacted_at = Absent
      THEN [b1 EXCEPT !.contacted_at = now]
      ELSE IF u.status = "quoted" /\ b1.quoted_at = Absent
           THEN [b1 EXCEPT !.quoted_at = now]
           ELSE b1

StatusUpdates ==
    [status : BookingStatus, contacted_at : {Unset}, quoted_at : {Unset}]

BookingUpdates ==
    StatusUpdates \cup
    [status : {"unset", "contacted", "quoted"}, contacted_at : {Unset, Absent},
     quoted_at : {Unset, Absent}]

AdminCanAct ==
    /\ probe.fn = "admin"
    /\ probe.ops < MaxAdminOps
    /\ \A p \in SeqProcs : pc[p] \in {"idle", "done"}

EmptyBody == [status |-> "unset", contacted_at |-> Unset, quoted_at |-> Unset]

AdminActed(op, id, body) ==
    probe' = [probe EXCEPT !.ops = @ + 1, !.op = op, !.id = id, !.body = body]

UpdateBooking(id, u) ==
    /\ AdminCanAct
    /\ id \in DOMAIN bookings
    /\ bookings' = [bookings EXCEPT ![id] = update_booking(@, u)]
    /\ AdminActed(IF u.status = bookings[id].status
                  THEN "update_booking_same_status" ELSE "update_booking", id, u)
    /\ UNCHANGED <<now, ticks, contacts, pc, draft, resp, cur, submitted, outbox>>

delete_booking(b) == [b EXCEPT !.is_archived = TRUE]

DeleteBooking(id) ==
    /\ AdminCanAct
    /\ id \in DOMAIN bookings
    /\ bookings' = [bookings EXCEPT ![id] = delete_booking(@)]
    /\ AdminActed("delete_booking", id, EmptyBody)
    /\ UNCHANGED <<now, ticks, contacts, pc, draft, resp, cur, submitted, outbox>>

DeleteContact(id) ==
    /\ AdminCanAct
    /\ HasContact(id)
    /\ contacts' = {c \in contacts : c.id # id}
    /\ AdminActed("delete_contact", id, EmptyBody)
    /\ UNCHANGED <<now, ticks, bookings, pc, draft, resp, cur, submitted, outbox>>

\* mark_as_spam that sets the flag and nothing else.
mark_as_spam_flag_only(c, is_spam) == [c EXCEPT !.is_spam = is_spam]

mark_as_spam(c, is_spam) ==
    [c EXCEPT !.is_spam = is_spam,
              !.requires_follow_up = IF is_spam THEN FALSE ELSE @]

\* mark_as_spam that drops the contact it flags.
MarkAsSpam_removes(id, is_spam) ==
    /\ AdminCanAct
    /\ HasContact(id)
    /\ contacts' = {c \in contacts : c.id # id \/ ~is_spam}
    /\ AdminActed("mark_as_spam", id, EmptyBody)
    /\ UNCHANGED <<now, ticks, bookings, pc, draft, resp, cur, submitted, outbox>>

MarkAsSpam(id, is_spam) ==
    /\ AdminCanAct
    /\ HasContact(id)
    /\ contacts' = {IF c.id = id THEN mark_as_spam(c, is_spam) ELSE c : c \in contacts}
    /\ AdminActed("mark_as_spam", id, EmptyBody)
    /\ UNCHANGED <<now, ticks, bookings, pc, draft, resp, cur, submitted, outbox>>

InitAdmin ==
    /\ now = 0
    /\ ticks = 0
    /\ bookings = <<>>
    /\ contacts = {}
    /\ pc = [p \in Procs |-> "idle"]
    /\ draft = [p \in Procs |-> NoDraft]
    /\ resp = [p \in Procs |-> NoResp]
    /\ cur = [p \in Procs |-> 0]
    /\ submitted = 0
    /\ outbox = {}
    /\ probe = [fn |-> "admin", ops |-> 0, op |-> "none", id |-> 0, body |-> EmptyBody]

AdminBookingDraft ==
    BookingDraft("a@x.com", 1,
                 [event_type |-> "wedding", guest_count |-> 20, budget_min |-> Absent,
                  budget_max |-> Absent, previous_client |-> FALSE])

AdminContactDraft ==
    [kind |-> "contact", email |-> "a@x.com", subject |-> <<"hello">>,
     message |-> <<"hello", "hello">>, contact_type |-> "general", company |-> "",
     is_newsletter_signup |-> FALSE]

Ids == 1..MaxRequests

BookingIntake ==
    \/ \E p \in SeqProcs : SubmitBooking(p, AdminBookingDraft)
    \/ \E p \in SeqProcs : CommitBooking(p)
    \/ \E p \in SeqProcs : NotifyBooking(p)

ContactIntake ==
    \/ \E p \in SeqProcs : SubmitContact(p, AdminContactDraft)
    \/ \E p \in SeqProcs : CommitContact(p)
    \/ \E p \in SeqProcs : NotifyContact(p)

\* Bookings under administration, any body of BookingUpdates.
NextAdmin ==
    \/ BookingIntake
    \/ Tick(1)
    \/ \E id \in Ids, u \in BookingUpdates : UpdateBooking(id, u)
    \/ \E id \in Ids : DeleteBooking(id)

SpecAdmin == InitAdmin /\ [][NextAdmin]_vars

\* Bookings and contacts, and every operation called delete or spam.
NextRemoval ==
    \/ BookingIntake
    \/ ContactIntake
    \/ Tick(HoursPerDay)
    \/ \E id \in Ids : DeleteBooking(id)
    \/ \E id \in Ids : DeleteContact(id)
    \/ \E id \in Ids, f \in BOOLEAN : MarkAsSpam(id, f)

SpecRemoval == InitAdmin /\ [][NextRemoval]_vars

Updated(i) ==
    /\ probe'.ops # probe.ops
    /\ probe'.op \in {"update_booking", "update_booking_same_status"}
    /\ probe'.id = i

CreatedPendingOrNew ==
    [][/\ \A i \in DOMAIN bookings' \ DOMAIN bookings :
             bookings'[i].status = "pending"
       /\ \A c \in contacts' \ contacts : c.status = "new"]_vars

\* Bookings of both profiles and a spam contact are stored as submitted.
CreatedPendingOrNewWitness ==
    /\ \E i \in DOMAIN bookings :
          bookings[i].event_type = "corporate" /\ bookings[i].status = "pending"
    /\ \E i \in DOMAIN bookings :
          bookings[i].event_type = "wedding" /\ bookings[i].status = "pending"
    /\ \E c \in contacts : c.is_spam /\ c.status = "new"

StatusRank(st) ==
    CASE st = "pending" -> 0
      [] st = "reviewed" -> 1
      [] st = "contacted" -> 2
      [] st = "quoted" -> 3
      [] st = "confirmed" -> 4
      [] OTHER -> 5

\* C18: a status change of a booking goes forward along pending,
\* contacted, quoted, confirmed, completed, or to cancelled from a state
\* that is not terminal; completed and cancelled are never left.
StatusMonotone ==
    [][\A i \in DOMAIN bookings :
          \/ bookings'[i].status = bookings[i].status
          \/ /\ bookings[i].status \notin {"completed", "cancelled"}
             /\ \/ bookings'[i].status = "cancelled"
                \/ StatusRank(bookings'[i].status) > StatusRank(bookings[i].status)]_vars

BookingIds == DOMAIN bookings

ContactIds == {c.id : c \in contacts}

\* C19 as stated: no operation removes a stored booking or contact.
NothingRemoved ==
    [][/\ BookingIds \subseteq BookingIds'
       /\ ContactIds \subseteq ContactIds']_vars

\* C19 amended: no operation removes a stored booking (delete_booking sets
\* is_archived); mark_as_spam keeps the contact; the stored contact ids
\* shrink only by a delete_contact call, which removes the contact it names.
RemovedOnlyByDeleteContact ==
    [][/\ BookingIds \subseteq BookingIds'
       /\ \A i \in BookingIds :
             (probe'.op = "delete_booking" /\ probe'.ops # probe.ops /\ probe'.id = i)
                 => bookings'[i] = [bookings[i] EXCEPT !.is_archived = TRUE]
       /\ ~(ContactIds \subseteq ContactIds')
             => (/\ probe'.op = "delete_contact"
                 /\ ContactIds' = ContactIds \ {probe'.id}
                 /\ contacts' \subseteq contacts)]_vars

\* A contact has been deleted and a booking archived: the booking is
\* stored, the contact is not.
RemovedOnlyByDeleteContactWitness ==
    /\ probe.fn = "admin"
    /\ probe.op = "delete_contact"
    /\ ~HasContact(probe.id)
    /\ \E i \in DOMAIN bookings : bookings[i].is_archived

(***************************************************************************)
(* The booking classifier on its own: a submission is classified, then     *)
(* submitted again with one field changed.                                 *)
(***************************************************************************)
PriorityFieldValues ==
    [event_type |-> {"wedding", "corporate"},
     guest_count |-> {99, 100, 200, 201},
     budget_min |-> {Absent, 0, 10000, 10001},
     event_date |-> {30, 31, 60, 61},
     previous_client |-> BOOLEAN]

PriorityDrafts ==
    {[kind |-> "booking", contact_email |-> "a@x.com", budget_max |-> Absent,
      event_type |-> t, guest_count |-> g, budget_min |-> b, event_date |-> dt,
      previous_client |-> pv] :
        t \in PriorityFieldValues.event_type,
        g \in PriorityFieldValues.guest_count,
        b \in PriorityFieldValues.budget_min,
        dt \in PriorityFieldValues.event_date,
        pv \in PriorityFieldValues.previous_client}

InitPriority ==
    /\ now = 0
    /\ ticks = 0
    /\ bookings = <<>>
    /\ contacts = {}
    /\ pc = [p \in Procs |-> "idle"]
    /\ draft = [p \in Procs |-> NoDraft]
    /\ resp = [p \in Procs |-> NoResp]
    /\ cur = [p \in Procs |-> 0]
    /\ submitted = 0
    /\ outbox = {}
    /\ \E d \in PriorityDrafts :
          probe = [fn |-> "priority", applied |-> FALSE, arg |-> d, out |-> FALSE,
                   prev |-> d, prev_out |-> FALSE]

Others == <<now, ticks, bookings, contacts, pc, draft, resp, cur, submitted, outbox>>

ApplyPriority ==
    /\ probe.fn = "priority"
    /\ ~probe.applied
    /\ probe' = [probe EXCEPT !.applied = TRUE,
                              !.out = _determine_priority(probe.arg, Today),
                              !.prev_out = _determine_priority(probe.arg, Today)]
    /\ UNCHANGED Others

ResubmitWith(f, v) ==
    /\ probe.fn = "priority"
    /\ probe.applied
    /\ probe.arg[f] # v
    /\ LET d == [probe.arg EXCEPT ![f] = v] IN
         probe' = [probe EXCEPT !.arg = d,
                                !.out = _determine_priority(d, Today),
                                !.prev = probe.arg,
                                !.prev_out = probe.out]
    /\ UNCHANGED Others

NextPriority ==
    \/ ApplyPriority
    \/ \E f \in DOMAIN PriorityFieldValues :
          \E v \in PriorityFieldValues[f] : ResubmitWith(f, v)

SpecPriority == InitPriority /\ [][NextPriority]_vars

CountTrue(conds) == Cardinality({i \in DOMAIN conds : conds[i]})

\* The five factors as the specification words them.
StatedFactors(d, today) ==
    << d.event_date - today <= 30,
       d.guest_count >= 100,
       d.budget_min # Absent /\ d.budget_min >= HighBudget,
       d.event_type = "corporate",
       d.previous_client >>

\* C8 as stated: is_priority is true iff at least two of the five factors
\* (days <= 30, guests >= 100, budget_min >= threshold, high-priority event
\* type, previous client) hold; with exactly one it is false.
PriorityIffTwoFactors ==
    (probe.fn = "priority" /\ probe.applied)
        => (probe.out <=> CountTrue(StatedFactors(probe.arg, Today)) >= 2)

\* C8 amended: is_priority is true iff at least one of guest_count > 200,
\* budget_min > 10000, days until the event <= 60, event type corporate,
\* previous_client holds; with exactly one of them it is already true.
PriorityIffAnyCondition ==
    (probe.fn = "priority" /\ probe.applied)
        => (probe.out <=>
               \/ probe.arg.guest_count > 200
               \/ (probe.arg.budget_min # Absent /\ probe.arg.budget_min > 10000)
               \/ probe.arg.event_date - Today <= 60
               \/ probe.arg.event_type = "corporate"
               \/ probe.arg.previous_client)

\* A submission with exactly one condition (201 guests) has been classified
\* as priority.
PriorityIffAnyConditionWitness ==
    /\ probe.fn = "priority"
    /\ probe.applied
    /\ probe.arg.guest_count = 201
    /\ CountTrue(PriorityConditions(probe.arg, Today)) = 1
    /\ probe.out

RaisedOne(F, G) ==
    \E k \in DOMAIN F :
        /\ ~F[k]
        /\ G[k]
        /\ \A j \in DOMAIN F \ {k} : F[j] = G[j]

\* C9: when one factor goes from false to true and the others stay, the
\* number of true factors does not drop and a priority submission stays
\* priority.
PriorityMonotone ==
    (/\ probe.fn = "priority"
     /\ probe.applied
     /\ RaisedOne(PriorityConditions(probe.prev, Today),
                  PriorityConditions(probe.arg, Today)))
        => /\ CountTrue(PriorityConditions(probe.arg, Today))
                >= CountTrue(PriorityConditions(probe.prev, Today))
           /\ (probe.prev_out => probe.out)

\* A priority submission with one true factor got a second one.
PriorityMonotoneWitness ==
    /\ probe.fn = "priority"
    /\ probe.applied
    /\ RaisedOne(PriorityConditions(probe.prev, Today),
                 PriorityConditions(probe.arg, Today))
    /\ CountTrue(PriorityConditions(probe.prev, Today)) = 1
    /\ probe.prev_out
    /\ probe.out

(***************************************************************************)
(* The spam classifier on its own.                                         *)
(***************************************************************************)
Texts(n) == UNION {[1..k -> Words] : k \in 1..n}

\* ContactBase: min_length of subject and message, validate_subject,
\* validate_message (the link count; the capital letters are counted
\* before the value is stripped).
prohibited_subject == {"lottery", "winner", "million", "inheritance", "viagra", "casino"}

SchemaValidContact(d) ==
    /\ TextLen(d.subject) >= 5
    /\ TextLen(d.message) >= 10
    /\ ~\E k \in prohibited_subject : KeywordIn(k, d.subject)
    /\ TextUrls(d.message) <= 3

SpamDrafts ==
    {d \in [kind : {"contact"}, email : {"a@x.com", "Bob@Mailinator.COM"},
            subject : {<<"hello">>, <<"hello", "loan">>, <<"URGENT">>},
            message : Texts(MaxMsgTokens), contact_type : {"general"},
            company : {""}, is_newsletter_signup : {FALSE}] :
        SchemaValidContact(d)}

InitSpam ==
    /\ now = 0
    /\ ticks = 0
    /\ bookings = <<>>
    /\ contacts = {}
    /\ pc = [p \in Procs |-> "idle"]
    /\ draft = [p \in Procs |-> NoDraft]
    /\ resp = [p \in Procs |-> NoResp]
    /\ cur = [p \in Procs |-> 0]
    /\ submitted = 0
    /\ outbox = {}
    /\ \E d \in SpamDrafts :
          probe = [fn |-> "spam", applied |-> FALSE, arg |-> d, out |-> FALSE]

ApplySpam ==
    /\ probe.fn = "spam"
    /\ ~probe.applied
    /\ probe' = [probe EXCEPT !.applied = TRUE, !.out = _detect_spam(probe.arg)]
    /\ UNCHANGED Others

NextSpam == ApplySpam

SpecSpam == InitSpam /\ [][NextSpam]_vars

\* The score without the pattern signal, as the specification words it.
StatedScoreBase(d) ==
    2 * Cardinality({k \in spam_keywords : KeywordIn(k, d.subject) \/ KeywordIn(k, d.message)})
    + (CASE TextUrls(d.message) > 2 -> 3
         [] TextUrls(d.message) \in {1, 2} -> 1
         [] OTHER -> 0)
    + (IF 2 * TextUpper(d.message) > TextLen(d.message) THEN 2 ELSE 0)
    + (IF \E s \in suspicious_domains : Substring(s, Lower(EmailDomain(d.email)))
       THEN 3 ELSE 0)

\* C10 as stated: is_spam iff the score is at least 4, the pattern signal
\* being 1 if some punctuation character is repeated 3 or more times.
SpamIffStatedScore ==
    (probe.fn = "spam" /\ probe.applied)
        => (probe.out <=>
               StatedScoreBase(probe.arg)
                 + (IF TextTriples(probe.arg.message) # {} THEN 1 ELSE 0) >= 4)

\* C10 amended: the pattern signal is 1 if one of the characters ! @ # $ %
\* occurs three times in a row in the message; the rest as stated.
SpamIffScore ==
    (probe.fn = "spam" /\ probe.applied)
        => (probe.out <=>
               StatedScoreBase(probe.arg)
                 + (IF \E c \in {"!", "@", "#", "$", "%"} : c \in TextTriples(probe.arg.message)
                    THEN 1 ELSE 0) >= 4)

\* A submission that scores exactly 4 has been classified as spam.
SpamIffScoreWitness ==
    /\ probe.fn = "spam"
    /\ probe.applied
    /\ spam_indicators(probe.arg) = 4
    /\ PatternScore(probe.arg) = 1
    /\ probe.out

(***************************************************************************)
(* The contact priority on its own.                                        *)
(***************************************************************************)
ContactPriorityDrafts ==
    [kind : {"contact"}, email : {"a@x.com"},
     subject : {<<"hello">>, <<"URGENT">>, <<"hello", "asap">>},
     message : {<<"hello", "hello">>, <<"hello", "asap">>, <<"hello", "URGENT">>},
     contact_type : {"general", "complaint", "partnership", "feedback"},
     company : {"", "Acme"}, is_newsletter_signup : BOOLEAN]

InitContactPriority ==
    /\ now = 0
    /\ ticks = 0
    /\ bookings = <<>>
    /\ contacts = {}
    /\ pc = [p \in Procs |-> "idle"]
    /\ draft = [p \in Procs |-> NoDraft]
    /\ resp = [p \in Procs |-> NoResp]
    /\ cur = [p \in Procs |-> 0]
    /\ submitted = 0
    /\ outbox = {}
    /\ \E d \in ContactPriorityDrafts :
          probe = [fn |-> "contact_priority", applied |-> FALSE, arg |-> d,
                   out |-> "none"]

ApplyContactPriority ==
    /\ probe.fn = "contact_priority"
    /\ ~probe.applied
    /\ probe' = [probe EXCEPT !.applied = TRUE,
                              !.out = Contact_determine_priority(probe.arg)]
    /\ UNCHANGED Others

NextContactPriority == ApplyContactPriority

SpecContactPriority == InitContactPriority /\ [][NextContactPriority]_vars

UrgencyWords == {"urgent", "asap", "immediately"}

LowTrigger(d) == d.contact_type = "feedback" \/ d.is_newsletter_signup

ExpectedPriority(high, low) ==
    IF high THEN "urgent" ELSE IF low THEN "low" ELSE "normal"

\* C21 as stated: the priority is urgent if the type is complaint, an
\* urgency keyword is in the subject or in the message, or a partnership
\* inquiry names a company; otherwise low for feedback or a newsletter
\* signup; otherwise normal.
ContactPriorityAnyField ==
    (probe.fn = "contact_priority" /\ probe.applied)
        => probe.out = ExpectedPriority(
               \/ probe.arg.contact_type = "complaint"
               \/ \E k \in UrgencyWords :
                     KeywordIn(k, probe.arg.subject) \/ KeywordIn(k, probe.arg.message)
               \/ (probe.arg.contact_type = "partnership" /\ probe.arg.company # ""),
               LowTrigger(probe.arg))

\* C21 amended: the keyword triggers are "urgent" in the subject and "asap"
\* or "immediately" in the message; the rest as stated, urgent before low.
ContactPriorityByField ==
    (probe.fn = "contact_priority" /\ probe.applied)
        => probe.out = ExpectedPriority(
               \/ probe.arg.contact_type = "complaint"
               \/ \E i \in DOMAIN probe.arg.subject :
                     Lower(probe.arg.subject[i]) = "urgent"
               \/ \E i \in DOMAIN probe.arg.message :
                     Lower(probe.arg.message[i]) \in {"asap", "immediately"}
               \/ (probe.arg.contact_type = "partnership" /\ probe.arg.company # ""),
               LowTrigger(probe.arg))

\* A feedback inquiry with URGENT in its subject has come out urgent.
ContactPriorityByFieldWitness ==
    /\ probe.fn = "contact_priority"
    /\ probe.applied
    /\ probe.arg.contact_type = "feedback"
    /\ probe.arg.subject = <<"URGENT">>
    /\ probe.arg.message = <<"hello", "hello">>
    /\ probe.out = "urgent"

(***************************************************************************)
(* Slots: submissions from three spellings of two addresses for one date,  *)
(* with cancelling, restoring and archiving in between.                    *)
(***************************************************************************)
SlotDrafts ==
    {BookingDraft(e, 1, [event_type |-> "wedding", guest_count |-> 20,
                         budget_min |-> Absent, budget_max |-> Absent,
                         previous_client |-> FALSE]) : e \in RawEmails}

SlotUpdates ==
    [status : {"cancelled", "confirmed"}, contacted_at : {Unset}, quoted_at : {Unset}]

NextSlots ==
    \/ \E p \in SeqProcs, d \in SlotDrafts : SubmitBooking(p, d)
    \/ \E p \in SeqProcs : CommitBooking(p)
    \/ \E p \in SeqProcs : NotifyBooking(p)
    \/ \E id \in Ids, u \in SlotUpdates : UpdateBooking(id, u)
    \/ \E id \in Ids : DeleteBooking(id)

SpecSlots == InitAdmin /\ [][NextSlots]_vars

\* Email (lower-cased) and date of the submission p has just made.
SubmittedEmail(p, dr) ==
    IF dr[p].kind = "booking_row" THEN dr[p].row.contact_email
    ELSE Lower(dr[p].contact_email)

SubmittedDate(p, dr) ==
    IF dr[p].kind = "booking_row" THEN dr[p].row.event_date ELSE dr[p].event_date

\* C22: a submission is refused as a duplicate exactly when a stored
\* booking has the same lower-cased email, the same date and a status other
\* than cancelled, whatever its is_archived flag: a cancelled booking frees
\* its slot and an archived one keeps it.
DuplicateVerdict ==
    [][\A p \in SeqProcs :
         submitted' = submitted + 1 =>
            ((resp'[p].code # 0) <=>
               \E i \in DOMAIN bookings :
                  /\ bookings[i].contact_email = SubmittedEmail(p, draft')
                  /\ bookings[i].event_date = SubmittedDate(p, draft')
                  /\ bookings[i].status # "cancelled")]_vars

\* Booking 1 was cancelled, booking 2 took its slot and was archived, and
\* a third submission for the slot has been refused.
DuplicateVerdictWitness ==
    /\ Len(bookings) = 2
    /\ SameSlot(bookings[1], bookings[2])
    /\ bookings[1].status = "cancelled"
    /\ bookings[2].status = "pending"
    /\ bookings[2].is_archived
    /\ \E p \in SeqProcs :
          /\ cur[p] = 3
          /\ Rejected(p)
          /\ Lower(draft[p].contact_email) = bookings[2].contact_email

NonCancelledIn(bs, i) == bs[i].status # "cancelled"

SlotHolders(bs, b) ==
    {i \in DOMAIN bs : SameSlot(bs[i], b) /\ NonCancelledIn(bs, i)}

OneHolderPerSlot(bs) ==
    \A i \in DOMAIN bs : Cardinality(SlotHolders(bs, bs[i])) <= 1

\* C26: every step of create_booking and of update_booking keeps at most
\* one booking with a status other than cancelled per lower-cased email and
\* event date, also the step that sets a cancelled booking back to another
\* status after its slot was taken again.
UniquenessPreserved ==
    [][OneHolderPerSlot(bookings) => OneHolderPerSlot(bookings')]_vars

(***************************************************************************)
(* EmailService._send_smtp_with_retry: one call, step by step.  An          *)
(* exception is named by the attempt it came from and the await that       *)
(* raised it.                                                              *)
(***************************************************************************)
MaxRetryLimit == 2

NoSmtpExc == [n |-> 0, at |-> "none"]

InitSmtp ==
    /\ now = 0
    /\ ticks = 0
    /\ bookings = <<>>
    /\ contacts = {}
    /\ pc = [p \in Procs |-> "idle"]
    /\ draft = [p \in Procs |-> NoDraft]
    /\ resp = [p \in Procs |-> NoResp]
    /\ cur = [p \in Procs |-> 0]
    /\ submitted = 0
    /\ outbox = {}
    /\ \E mr \in 0..MaxRetryLimit :
          probe = [fn |-> "smtp", max_retries |-> mr, attempt |-> 0, tries |-> 0,
                   phase |-> "while", last_exc |-> NoSmtpExc, delivered |-> 0,
                   raised |-> NoSmtpExc]

\* The loop test with one attempt more.
WhileHolds_one_more(pr) == pr.attempt <= pr.max_retries + 1

\* while attempt <= self.max_retries
WhileHolds(pr) == pr.attempt <= pr.max_retries

\* The loop test; past the loop, raise last_exc (or the RuntimeError).
SmtpWhile ==
    /\ probe.fn = "smtp"
    /\ probe.phase = "while"
    /\ probe' = IF WhileHolds(probe)
                THEN [probe EXCEPT !.phase = "connect", !.tries = @ + 1]
                ELSE [probe EXCEPT !.phase = "raised",
                                   !.raised = IF probe.last_exc = NoSmtpExc
                                              THEN [n |-> 0, at |-> "RuntimeError"]
                                              ELSE probe.last_exc]
    /\ UNCHANGED Others

\* except Exception as e: keep it, sleep unless this was the last attempt,
\* count the attempt.
SmtpExcept(pr, at) ==
    IF pr.attempt < pr.max_retries
    THEN [pr EXCEPT !.last_exc = [n |-> pr.tries, at |-> at], !.phase = "sleep"]
    ELSE [pr EXCEPT !.last_exc = [n |-> pr.tries, at |-> at], !.phase = "while",
                    !.attempt = @ + 1]

\* connect, starttls, login
SmtpConnect(ok) ==
    /\ probe.fn = "smtp"
    /\ probe.phase = "connect"
    /\ probe' = IF ok THEN [probe EXCEPT !.phase = "send"]
                ELSE SmtpExcept(probe, "connect")
    /\ UNCHANGED Others

\* send_message
SmtpSend(ok) ==
    /\ probe.fn = "smtp"
    /\ probe.phase = "send"
    /\ probe' = IF ok THEN [probe EXCEPT !.phase = "quit", !.delivered = @ + 1]
                ELSE SmtpExcept(probe, "send")
    /\ UNCHANGED Others

\* quit, then return
SmtpQuit(ok) ==
    /\ probe.fn = "smtp"
    /\ probe.phase = "quit"
    /\ probe' = IF ok THEN [probe EXCEPT !.phase = "returned"]
                ELSE SmtpExcept(probe, "quit")
    /\ UNCHANGED Others

\* asyncio.sleep(delay) is over; attempt += 1
SmtpSleep ==
    /\ probe.fn = "smtp"
    /\ probe.phase = "sleep"
    /\ probe' = [probe EXCEPT !.phase = "while", !.attempt = @ + 1]
    /\ UNCHANGED Others

NextSmtp ==
    \/ SmtpWhile
    \/ \E ok \in BOOLEAN : SmtpConnect(ok)
    \/ \E ok \in BOOLEAN : SmtpSend(ok)
    \/ \E ok \in BOOLEAN : SmtpQuit(ok)
    \/ SmtpSleep

\* Every await of the loop comes back (the client has a timeout, the sleep
\* is finite).
SpecSmtp == InitSmtp /\ [][NextSmtp]_vars /\ WF_vars(NextSmtp)

SmtpOver == probe.phase \in {"returned", "raised"}

SmtpBounded ==
    /\ probe.tries <= probe.max_retries + 1
    /\ probe.phase = "returned" => probe.last_exc.n < probe.tries
    /\ probe.phase = "raised" =>
          /\ probe.tries = probe.max_retries + 1
          /\ probe.raised.n = probe.tries
          /\ probe.raised.at \in {"connect", "send", "quit"}

\* C25: the send loop always ends; it makes at most max_retries + 1
\* attempts, returns from the first attempt that raises nothing and makes
\* no attempt after it, and when max_retries + 1 attempts have failed it
\* raises the exception of the last one.
SmtpLoopTerminates ==
    /\ <>SmtpOver
    /\ []SmtpBounded
    /\ [][SmtpOver => UNCHANGED probe]_vars

\* Two attempts failed, the third went through, and the call has returned.
SmtpLoopTerminatesWitness ==
    /\ probe.fn = "smtp"
    /\ probe.phase = "returned"
    /\ probe.max_retries = 2
    /\ probe.tries = 3
    /\ probe.last_exc.n = 2

(***************************************************************************)
(* The conflict descriptor: _create_duplicate_booking_error of the         *)
(* service and create_duplicate_booking_response of the response schemas,  *)
(* applied to an existing booking of a given status and age.  A text is    *)
(* named by the status whose branch holds it; times are in seconds.        *)
(***************************************************************************)
SecondsPerMinute == 60

SecondsPerHour == 3600

SecondsPerDay == 86400

\* time_text with the hours looked at before the days.
time_text_hours_first(elapsed) ==
    LET hours == elapsed \div SecondsPerHour
        days == elapsed \div SecondsPerDay IN
      IF hours > 0
      THEN [n |-> hours, unit |-> "hour", plural |-> hours # 1]
      ELSE IF days > 0
           THEN [n |-> days, unit |-> "day", plural |-> days # 1]
           ELSE [n |-> elapsed \div SecondsPerMinute, unit |-> "minute",
                 plural |-> elapsed \div SecondsPerMinute # 1]

\* time_diff.days, int(total_seconds() / 3600), int(total_seconds() / 60)
time_text(elapsed) ==
    LET days == elapsed \div SecondsPerDay
        hours == elapsed \div SecondsPerHour
        minutes == elapsed \div SecondsPerMinute IN
      IF days > 0
      THEN [n |-> days, unit |-> "day", plural |-> days # 1]
      ELSE IF hours > 0
           THEN [n |-> hours, unit |-> "hour", plural |-> hours # 1]
           ELSE [n |-> minutes, unit |-> "minute", plural |-> minutes # 1]

NamedBands == {"pending", "contacted", "quoted", "confirmed"}

BandRecommendations(band) ==
    CASE band = "pending" ->
           <<"check_email_spam_folder", "call_if_urgent", "respond_within_24h">>
      [] band = "contacted" ->
           <<"follow_up_email", "reply_with_requirements", "quote_in_2_3_days">>
      [] band = "quoted" ->
           <<"review_quote", "contact_for_modifications", "confirm_by_quote",
             "quote_valid_30_days">>
      [] band = "confirmed" ->
           <<"no_action_needed", "contact_2_weeks_before", "changes_directly",
             "thank_you">>

_get_user_recommendations(st) ==
    IF st \in NamedBands THEN BandRecommendations(st) ELSE <<>>

status_text(st) ==
    CASE st = "pending" -> "under review"
      [] st = "contacted" -> "being processed"
      [] st = "quoted" -> "quoted and awaiting your response"
      [] st = "confirmed" -> "confirmed"
      [] st = "completed" -> "completed"
      [] OTHER -> "being processed"

_create_duplicate_booking_error(st, elapsed) ==
    [message |-> IF st \in NamedBands THEN st ELSE "default",
     status_text |-> IF st \in NamedBands THEN "" ELSE status_text(st),
     time_since_booking |-> time_text(elapsed),
     recommendations |-> _get_user_recommendations(st)]

\* status_messages.get(status, status_messages[PENDING])
create_duplicate_booking_response(st, elapsed) ==
    LET info == IF st \in NamedBands THEN st ELSE "pending" IN
      [message |-> info,
       status_text |-> "",
       time_since_booking |-> time_text(elapsed),
       recommendations |-> BandRecommendations(info)]

Elapsed ==
    {0, 59, 60, 61, 3599, 3600, 7199, 7200, 86399, 86400, 172799, 172800}

NoDescriptor ==
    [message |-> "none", status_text |-> "",
     time_since_booking |-> [n |-> 0, unit |-> "none", plural |-> FALSE],
     recommendations |-> <<>>]

InitDescriptor ==
    /\ now = 0
    /\ ticks = 0
    /\ bookings = <<>>
    /\ contacts = {}
    /\ pc = [p \in Procs |-> "idle"]
    /\ draft = [p \in Procs |-> NoDraft]
    /\ resp = [p \in Procs |-> NoResp]
    /\ cur = [p \in Procs |-> 0]
    /\ submitted = 0
    /\ outbox = {}
    /\ \E st \in BookingStatus \ {"cancelled"}, el \in Elapsed :
          probe = [fn |-> "descriptor", builder |-> "none", status |-> st,
                   elapsed |-> el, out |-> NoDescriptor]

ApplyServiceDescriptor ==
    /\ probe.fn = "descriptor"
    /\ probe.builder = "none"
    /\ probe' = [probe EXCEPT
                   !.builder = "service",
                   !.out = _create_duplicate_booking_error(probe.status, probe.elapsed)]
    /\ UNCHANGED Others

ApplyResponseDescriptor ==
    /\ probe.fn = "descriptor"
    /\ probe.builder = "none"
    /\ probe' = [probe EXCEPT
                   !.builder = "response",
                   !.out = create_duplicate_booking_response(probe.status, probe.elapsed)]
    /\ UNCHANGED Others

NextDescriptor == ApplyServiceDescriptor \/ ApplyResponseDescriptor

SpecDescriptor == InitDescriptor /\ [][NextDescriptor]_vars

DescriptorBuilt == probe.fn = "descriptor" /\ probe.builder # "none"

\* C23: the descriptor of an existing booking that is pending, contacted,
\* quoted or confirmed has the message of that status and its non-empty
\* list of recommendations; for any other status that is not cancelled
\* (reviewed, completed) it has the message of the default band, which is
\* none of the four, and a list that is none of the four.
DescriptorByStatusBand ==
    DescriptorBuilt =>
        IF probe.status \in NamedBands
        THEN /\ probe.out.message = probe.status
             /\ probe.out.recommendations # <<>>
             /\ \A b \in NamedBands \ {probe.status} :
                   probe.out.recommendations # BandRecommendations(b)
        ELSE /\ probe.out.message \notin NamedBands
             /\ \A b \in NamedBands :
                   probe.out.recommendations # BandRecommendations(b)

\* C24: the time since submission is given in whole days when a day or
\* more has passed, else in whole hours when an hour or more has passed,
\* else in whole minutes.
TimeSinceCoarsestUnit ==
    DescriptorBuilt =>
        LET t == probe.out.time_since_booking
            el == probe.elapsed IN
          /\ el >= SecondsPerDay =>
                (t.unit = "day" /\ t.n * SecondsPerDay <= el
                                /\ el < (t.n + 1) * SecondsPerDay)
          /\ (el < SecondsPerDay /\ el >= SecondsPerHour) =>
                (t.unit = "hour" /\ t.n * SecondsPerHour <= el
                                 /\ el < (t.n + 1) * SecondsPerHour)
          /\ el < SecondsPerHour =>
                (t.unit = "minute" /\ t.n * SecondsPerMinute <= el
                                   /\ el < (t.n + 1) * SecondsPerMinute)

\* A descriptor built one second short of two days: "1 day ago".
TimeSinceCoarsestUnitWitness ==
    /\ DescriptorBuilt
    /\ probe.elapsed = 172799
    /\ probe.out.time_since_booking = [n |-> 1, unit |-> "day", plural |-> FALSE]

(***************************************************************************)
(* The inbox: contacts under mark_as_read, mark_as_spam and                *)
(* reply_to_contact.                                                       *)
(***************************************************************************)
mark_as_read(c) ==
    IF c.status = "new" THEN [c EXCEPT !.status = "read", !.read_at = now] ELSE c

MarkAsRead(id) ==
    /\ AdminCanAct
    /\ HasContact(id)
    /\ contacts' = {IF c.id = id THEN mark_as_read(c) ELSE c : c \in contacts}
    /\ AdminActed("mark_as_read", id, EmptyBody)
    /\ UNCHANGED <<now, ticks, bookings, pc, draft, resp, cur, submitted, outbox>>

\* The assignments after send_email: status, replied_at, and for
\* mark_as_resolved status again and requires_follow_up.
reply_to_contact(c, r) ==
    [c EXCEPT !.status = IF r.mark_as_resolved THEN "resolved" ELSE "read",
              !.replied_at = now,
              !.requires_follow_up = IF r.mark_as_resolved THEN FALSE ELSE @]

ContactReplies == [cc_admin : BOOLEAN, mark_as_resolved : BOOLEAN]

\* reply_to_contact: with cc_admin the argument settings.ADMIN_EMAIL raises
\* NameError (settings is not imported) before anything is sent, and the
\* except clause returns False; otherwise send_email answers True or False
\* (sent), the answer is dropped, the contact is updated and True returned.
ReplyToContact(id, r, sent) ==
    /\ AdminCanAct
    /\ HasContact(id)
    /\ r.cc_admin => ~sent
    /\ contacts' = IF r.cc_admin THEN contacts
                   ELSE {IF c.id = id THEN reply_to_contact(c, r) ELSE c : c \in contacts}
    /\ AdminActed("reply_to_contact", id,
                  [cc_admin |-> r.cc_admin, mark_as_resolved |-> r.mark_as_resolved,
                   sent |-> sent, result |-> ~r.cc_admin])
    /\ UNCHANGED <<now, ticks, bookings, pc, draft, resp, cur, submitted, outbox>>

InboxDrafts ==
    {[kind |-> "contact", email |-> "a@x.com", subject |-> <<"hello">>,
      message |-> <<"hello", "hello">>, contact_type |-> "general", company |-> "",
      is_newsletter_signup |-> FALSE],
     [kind |-> "contact", email |-> "b@y.org", subject |-> <<"hello">>,
      message |-> <<"lottery", "http://a.io", "!!!">>, contact_type |-> "general",
      company |-> "", is_newsletter_signup |-> FALSE]}

NextInbox ==
    \/ \E p \in SeqProcs, d \in InboxDrafts : SubmitContact(p, d)
    \/ \E p \in SeqProcs : CommitContact(p)
    \/ \E p \in SeqProcs : NotifyContact(p)
    \/ \E id \in Ids : MarkAsRead(id)
    \/ \E id \in Ids, f \in BOOLEAN : MarkAsSpam(id, f)
    \/ \E id \in Ids, r \in ContactReplies, sent \in BOOLEAN : ReplyToContact(id, r, sent)

SpecInbox == InitAdmin /\ [][NextInbox]_vars

Replied == probe'.ops = probe.ops + 1 /\ probe'.op = "reply_to_contact"

ContactOf(cs, id) == CHOOSE c \in cs : c.id = id

\* C27: reply_to_contact returns True and sets status, replied_at and
\* requires_follow_up only when the reply email was sent; when the email
\* was not sent it returns False and leaves the contact as it was.
ReplyMarksOnlyWhenSent ==
    [][Replied =>
         /\ probe'.body.result => probe'.body.sent
         /\ ~probe'.body.sent => (~probe'.body.result /\ contacts' = contacts)]_vars

ContactRank(st) ==
    CASE st = "new" -> 0
      [] st = "read" -> 1
      [] st = "replied" -> 2
      [] st = "resolved" -> 3
      [] st = "archived" -> 4

\* C28: under mark_as_read and reply_to_contact the status of a contact
\* never moves backward along new, read, replied, resolved; mark_as_read
\* changes a contact only when it is new, to read with read_at stamped.
ContactStatusForward ==
    [][\A c \in contacts :
         HasContact(c.id)' =>
            LET c2 == ContactOf(contacts', c.id) IN
              /\ ContactRank(c2.status) >= ContactRank(c.status)
              /\ (probe'.op = "mark_as_read" /\ probe'.ops = probe.ops + 1) =>
                    IF c.id = probe'.id /\ c.status = "new"
                    THEN c2 = [c EXCEPT !.status = "read", !.read_at = now]
                    ELSE c2 = c]_vars

SpamNeedsNoFollowUp == \A c \in contacts : c.is_spam => ~c.requires_follow_up

RecentDrafts ==
    {[kind |-> "contact", email |-> e, subject |-> <<"hello">>,
      message |-> <<"hello", "hello">>, contact_type |-> "general", company |-> "",
      is_newsletter_signup |-> FALSE] : e \in RawEmails}

NextRecent ==
    \/ \E p \in SeqProcs, d \in RecentDrafts : SubmitContact(p, d)
    \/ \E p \in SeqProcs : CommitContact(p)
    \/ \E p \in SeqProcs : NotifyContact(p)
    \/ \E d \in {1, 2} : Tick(d)

SpecRecent == Init /\ [][NextRecent]_vars

ContactRejected(p) == pc[p] = "done" /\ draft[p].kind = "contact"

SubmittedContactEmail(p, dr) ==
    IF dr[p].kind = "contact_row" THEN dr[p].row.email ELSE Lower(dr[p].email)

HourApart ==
    \A c1 \in contacts, c2 \in contacts :
        (c1.id # c2.id /\ c1.email = c2.email)
            => \/ c1.created_at - c2.created_at > RecentContactHours
               \/ c2.created_at - c1.created_at > RecentContactHours

\* C29: with submissions handled one after the other, no two stored
\* contacts of the same lower-cased email were created within one hour of
\* each other; a submission whose email has a contact created in the
\* preceding hour is rejected and stores nothing.
NoTwoContactsWithinHour ==
    /\ []HourApart
    /\ [][\A p \in SeqProcs :
            (/\ submitted' = submitted + 1
             /\ \E c \in contacts :
                   /\ c.email = SubmittedContactEmail(p, draft')
                   /\ now - c.created_at <= RecentContactHours)
               => (ContactRejected(p)' /\ resp'[p].code # 0 /\ contacts' = contacts)]_vars
    /\ [][\A p \in SeqProcs : ContactRejected(p) => contacts' = contacts]_vars

\* Two contacts of one address are stored two hours apart and a third
\* submission from the address has been turned away.
NoTwoContactsWithinHourWitness ==
    /\ \E c1 \in contacts, c2 \in contacts :
          /\ c1.email = c2.email
          /\ c2.created_at - c1.created_at = 2
    /\ \E p \in SeqProcs :
          /\ ContactRejected(p)
          /\ \E c \in contacts : c.email = Lower(draft[p].email)

====
